---- MODULE Spec2Model ----
(***************************************************************************)
(* Model of app.py (reiwa-kawaraban-bot): repeated, non-overlapping runs   *)
(* of main() that share nothing but the record file seen.txt.              *)
(*                                                                         *)
(* Texts (file content, fingerprints, drafts, tweets) are sequences of     *)
(* one-character strings, so that strip(), line splitting and clipping are *)
(* computed as the code computes them.                                     *)
(*                                                                         *)
(* The runs modelled are those in which the two assertions of lines        *)
(* 180-181 pass (both secrets are set).                                    *)
(***************************************************************************)
EXTENDS Integers, Sequences, FiniteSets, TLC

VARIABLES
    file,         \* content of seen.txt, a sequence of characters
    file_exists,  \* whether seen.txt exists
    feed,         \* the links the feeds give, in feed order (the same in every run)
    budget,       \* POST_SLOTS_PER_RUN
    pc,           \* position of the current run in main()
    err,          \* what aborted the run: "none", "load", "gen", "post", "save"
    seen_hashes,  \* main: seen_hashes
    new_hashes,   \* main: new_hashes
    picked,       \* main: picked
    items,        \* main: items
    idx,          \* number of items the selection loop has examined
    resolved,     \* what final_url returned for each examined item, in order
    k,            \* index in picked of the candidate the publish loop is at
    responses,    \* call_openai: the responses of the current call, in order
    waits,        \* call_openai: the durations slept by the current call
    draft,        \* main: draft
    tweet,        \* main: tweet
    posted,       \* fingerprints X accepted a post for, over all runs, in order
    published,    \* this run: fingerprint of each post X accepted, in order
    save_calls,   \* this run: number of calls of save_seen
    save_arg,     \* this run: argument of the last call of save_seen
    load_calls,   \* this run: number of calls of load_seen
    delays,       \* this run: number of calls of time.sleep(2), line 228
    down,         \* links whose resolution fails in every run (SpecFair)
    rt,           \* the store exercised alone: load, append, load
    ct            \* clip_len exercised alone: a text, a length, the result

vars == << file, file_exists, feed, budget, pc, err, seen_hashes,
           new_hashes, picked, items, idx, resolved, k, responses, waits,
           draft, tweet, posted, published, save_calls, save_arg,
           load_calls, delays, down, rt, ct >>

persisted == << file, file_exists >>
config == << feed, budget, down >>
select_vars == << picked, items, idx, resolved >>
gen_vars == << responses, waits, draft, tweet >>
save_vars == << save_calls, save_arg >>
units == << rt, ct >>

----------------------------------------------------------------------------
(* Bounds of the model.                                                    *)

MaxItems == 3
MaxPosts == 3
MaxFileLines == 3
MaxTextLen == 3

(* Constants of the program.                                               *)

MaxAttempts == 3
BackoffBase == 5
TweetLimit == 280
RateLimited == 429

----------------------------------------------------------------------------
(* Sequences.                                                              *)

Range(s) == { s[i] : i \in 1..Len(s) }

IsPrefix(s, t) == Len(s) <= Len(t) /\ SubSeq(t, 1, Len(s)) = s

Rep(c, n) == [i \in 1..n |-> c]

----------------------------------------------------------------------------
(* str.strip(): leading and trailing whitespace removed.                   *)

Whitespace == { " ", "\t", "\n" }

RECURSIVE LStrip(_)
LStrip(s) ==
    IF s # << >> /\ Head(s) \in Whitespace THEN LStrip(Tail(s)) ELSE s

RECURSIVE RStrip(_)
RStrip(s) ==
    IF s # << >> /\ s[Len(s)] \in Whitespace
    THEN RStrip(SubSeq(s, 1, Len(s) - 1))
    ELSE s

Strip(s) == RStrip(LStrip(s))

----------------------------------------------------------------------------
(* The seen-set store.                                                     *)

(* Iterating a text file: each line with its newline, and a last line      *)
(* without one when the file does not end in a newline.                    *)
RECURSIVE ReadLines(_, _)
ReadLines(f, cur) ==
    IF f = << >> THEN (IF cur = << >> THEN << >> ELSE << cur >>)
    ELSE IF Head(f) = "\n"
         THEN << Append(cur, "\n") >> \o ReadLines(Tail(f), << >>)
         ELSE ReadLines(Tail(f), Append(cur, Head(f)))

load_seen(exists, f) ==
    IF ~exists THEN {}
    ELSE { Strip(x) : x \in Range(ReadLines(f, << >>)) } \ { << >> }

(* What save_seen writes: each hash followed by a newline.                 *)
RECURSIVE WriteLinesNoNewline(_)
WriteLinesNoNewline(hashes) ==
    IF hashes = << >> THEN << >>
    ELSE Head(hashes) \o WriteLinesNoNewline(Tail(hashes))

RECURSIVE WriteLines(_)
WriteLines(hashes) ==
    IF hashes = << >> THEN << >>
    ELSE Head(hashes) \o << "\n" >> \o WriteLines(Tail(hashes))

(* open(SEEN_FILE, "a"): the writes go after the content there is.         *)
save_seen_truncating(f, hashes) == WriteLines(hashes)

save_seen(f, hashes) == f \o WriteLines(hashes)

----------------------------------------------------------------------------
(* Links, redirect resolution and fingerprints.                            *)

(* Links of the feeds: g1 and g2 relay to the same article a1; a2 is the   *)
(* address of an article itself.                                           *)
Links == { "g1", "g2", "a2" }

Redirect(link) ==
    CASE link = "g1" -> "a1"
      [] link = "g2" -> "a1"
      [] link = "a2" -> "a2"

(* final_url: the terminal URL, or the link itself on any exception.       *)
final_url(link) == { Redirect(link), link }

(* sha256(u).hexdigest(): a digest per URL, no two URLs sharing one.       *)
sha(u) ==
    CASE u = "g1" -> << "9", "1" >>
      [] u = "g2" -> << "9", "2" >>
      [] u = "a1" -> << "c", "1" >>
      [] u = "a2" -> << "c", "2" >>

URLs == Links \cup { Redirect(l) : l \in Links }

Fingerprints == { sha(u) : u \in URLs }

----------------------------------------------------------------------------
(* Selection.                                                              *)

AlreadySeen(h, seen) == h \in seen

(* picked.append(it)                                                       *)
PickFront(p, it) == << it >> \o p

Pick(p, it) == Append(p, it)

BudgetMet(n, b) == n >= b

----------------------------------------------------------------------------
(* Text generation and publishing.                                         *)

(* clip_len: at most maxlen characters, the last one the marker when cut.  *)
Marker == "~"

(* s[:n]: the first n characters, all of s when it has fewer; a negative  *)
(* n counts from the end: all but the last -n characters.                  *)
SliceTo(s, n) ==
    IF n >= 0
    THEN SubSeq(s, 1, IF n < Len(s) THEN n ELSE Len(s))
    ELSE SubSeq(s, 1, IF Len(s) + n > 0 THEN Len(s) + n ELSE 0)

clip_len_keeping(txt, maxlen) ==
    IF Len(txt) <= maxlen THEN txt
    ELSE SliceTo(txt, maxlen) \o << Marker >>

clip_len(txt, maxlen) ==
    IF Len(txt) <= maxlen THEN txt
    ELSE SliceTo(txt, maxlen - 1) \o << Marker >>

(* Response.raise_for_status(): raises on a 4xx or 5xx status.             *)
RaiseForStatusServerOnly(status) == status >= 500 /\ status < 600

RaiseForStatus(status) == status >= 400 /\ status < 600

(* Contents a completion may carry: short, padded with whitespace, and one *)
(* character over the tweet limit.                                         *)
Short == << "n", "e", "w", "s" >>
Padded == << " ", "n", "e", "w", "s", "\n" >>
TooLong == Rep("x", TweetLimit + 1)
Contents == { Short, Padded, TooLong }

ErrorBody == << "e", "r", "r" >>

GenResponses ==
    [ status : { 200 }, content : Contents ]
        \cup [ status : { RateLimited, 500 }, content : { ErrorBody } ]

PostStatuses == { 200, 201, 403 }

PostAccepted(status) == status \in { 200, 201 }

(* Lines 221-223 of main.                                                  *)
Truncated(d) == IF Len(d) > TweetLimit THEN clip_len(d, TweetLimit) ELSE d

(* The wait after the attempt-th (0-based) rate-limited attempt.           *)
WaitSecFlat(attempt) == BackoffBase

WaitSec(attempt) == BackoffBase * (attempt + 1)

----------------------------------------------------------------------------
(* The feeds and the configuration a behaviour starts from.                *)

FeedLists == UNION { [1..n -> Links] : n \in 0..MaxItems }

(* POST_SLOTS_PER_RUN: none, the default of one, and a batch of two.      *)
Budgets == { 0, 1, 2 }

RtIdle == [ pc |-> "idle", before |-> {}, arg |-> << >>, after |-> {} ]

CtIdle == [ pc |-> "idle", txt |-> << >>, maxlen |-> 0, out |-> << >>,
            tweet |-> << >> ]

(* The state of a process that has not yet run a line of main().           *)
FreshRun ==
    /\ pc = "start"
    /\ err = "none"
    /\ seen_hashes = {}
    /\ new_hashes = << >>
    /\ picked = << >>
    /\ items = << >>
    /\ idx = 0
    /\ resolved = << >>
    /\ k = 0
    /\ responses = << >>
    /\ waits = << >>
    /\ draft = << >>
    /\ tweet = << >>
    /\ published = << >>
    /\ save_calls = 0
    /\ save_arg = << >>
    /\ load_calls = 0
    /\ delays = 0

Init ==
    /\ file = << >>
    /\ file_exists = FALSE
    /\ feed \in FeedLists
    /\ budget \in Budgets
    /\ posted = << >>
    /\ down = {}
    /\ rt = RtIdle
    /\ ct = CtIdle
    /\ FreshRun

----------------------------------------------------------------------------
(* main(), one action per step.                                            *)

(* Line 183: seen_hashes = load_seen(); lines 184-185.                     *)
LoadSeen ==
    /\ pc = "start"
    /\ seen_hashes' = load_seen(file_exists, file)
    /\ new_hashes' = << >>
    /\ picked' = << >>
    /\ load_calls' = load_calls + 1
    /\ pc' = "collect"
    /\ UNCHANGED << persisted, config, err, items, idx, resolved, k,
                    gen_vars, posted, published, save_vars, delays, units >>

(* Line 53: open() of an existing record raises; the run ends there.       *)
LoadSeenFailsIgnored ==
    /\ pc = "start"
    /\ file_exists
    /\ load_calls' = load_calls + 1
    /\ seen_hashes' = {}
    /\ pc' = "collect"
    /\ err' = "load"
    /\ UNCHANGED << persisted, config, new_hashes, select_vars, k,
                    gen_vars, posted, published, save_vars, delays, units >>

LoadSeenFails ==
    /\ pc = "start"
    /\ file_exists
    /\ load_calls' = load_calls + 1
    /\ pc' = "failed"
    /\ err' = "load"
    /\ UNCHANGED << persisted, config, seen_hashes, new_hashes,
                    select_vars, k, gen_vars, posted, published, save_vars,
                    delays, units >>

(* Lines 188-195: items is what the feeds give, in feed order.             *)
Collect ==
    /\ pc = "collect"
    /\ items' = feed
    /\ idx' = 0
    /\ pc' = "select"
    /\ UNCHANGED << persisted, config, err, seen_hashes, new_hashes,
                    picked, resolved, k, gen_vars, posted, published,
                    save_vars, load_calls, delays, units >>

(* The publish loop starts at the first picked candidate.                  *)
EnterLoop ==
    /\ pc' = "generate"
    /\ k' = 1
    /\ responses' = << >>
    /\ waits' = << >>

(* Lines 198-207: one iteration of the selection loop.                     *)
(* u is what final_url returned for the item.                              *)
SelectWith(u) ==
    LET h == sha(u)
        it == [ pos |-> idx + 1, link |-> items[idx + 1],
                final |-> u, hash |-> h ]
    IN  /\ idx' = idx + 1
        /\ resolved' = Append(resolved, u)
        /\ IF AlreadySeen(h, seen_hashes)
           THEN /\ picked' = picked
                /\ pc' = "select"
                /\ UNCHANGED << k, responses, waits >>
           ELSE /\ picked' = Pick(picked, it)
                /\ IF BudgetMet(Len(picked) + 1, budget)
                   THEN EnterLoop
                   ELSE /\ pc' = "select"
                        /\ UNCHANGED << k, responses, waits >>

SelectStep ==
    /\ pc = "select"
    /\ idx < Len(items)
    /\ \E u \in final_url(items[idx + 1]) : SelectWith(u)
    /\ UNCHANGED << persisted, config, err, seen_hashes, new_hashes,
                    items, draft, tweet, posted, published, save_vars, load_calls, delays, units >>

(* The selection loop runs out of items; lines 209-211.                    *)
SelectExhaustedRaises ==
    /\ pc = "select"
    /\ idx = Len(items)
    /\ IF picked = << >>
       THEN /\ pc' = "failed"
            /\ err' = "select"
            /\ UNCHANGED << k, responses, waits >>
       ELSE /\ EnterLoop
            /\ err' = err
    /\ UNCHANGED << persisted, config, seen_hashes, new_hashes,
                    select_vars, draft, tweet, posted, published, save_vars,
                    load_calls, delays, units >>

SelectExhausted ==
    /\ pc = "select"
    /\ idx = Len(items)
    /\ IF picked = << >>
       THEN /\ pc' = "done"
            /\ UNCHANGED << k, responses, waits >>
       ELSE EnterLoop
    /\ UNCHANGED << persisted, config, err, seen_hashes, new_hashes,
                    select_vars, draft, tweet, posted, published, save_vars,
                    load_calls, delays, units >>

(* call_openai returns text: lines 218-223 of main.                        *)
Returns(text) ==
    /\ draft' = text
    /\ tweet' = Truncated(text)
    /\ pc' = "post"
    /\ err' = err

Raises(what) ==
    /\ pc' = "failed"
    /\ err' = what
    /\ UNCHANGED << draft, tweet >>

(* Lines 148-155: an attempt answered 429; sleep, then the next attempt,   *)
(* or, after the last one, lines 162-163.                                  *)
GenRateLimited ==
    /\ pc = "generate"
    /\ Len(responses) < MaxAttempts
    /\ \E r \in GenResponses :
          /\ r.status = RateLimited
          /\ responses' = Append(responses, r)
          /\ waits' = Append(waits, WaitSec(Len(responses)))
          /\ IF Len(responses) + 1 < MaxAttempts
             THEN /\ pc' = "generate"
                  /\ UNCHANGED << err, draft, tweet >>
             ELSE IF RaiseForStatus(r.status)
                  THEN Raises("gen")
                  ELSE Returns(<< >>)
    /\ UNCHANGED << persisted, config, seen_hashes, new_hashes,
                    select_vars, k, posted, published, save_vars, load_calls, delays, units >>

(* Lines 148, 158: an attempt answered with another error status.          *)
GenFailsRetried ==
    /\ pc = "generate"
    /\ Len(responses) < MaxAttempts
    /\ \E r \in GenResponses :
          /\ r.status # RateLimited
          /\ RaiseForStatus(r.status)
          /\ responses' = Append(responses, r)
          /\ IF Len(responses) + 1 < MaxAttempts
             THEN /\ pc' = "generate"
                  /\ UNCHANGED << err, draft, tweet >>
             ELSE Raises("gen")
    /\ UNCHANGED << persisted, config, seen_hashes, new_hashes,
                    select_vars, k, waits, posted, published, save_vars,
                    load_calls, delays, units >>

GenFails ==
    /\ pc = "generate"
    /\ Len(responses) < MaxAttempts
    /\ \E r \in GenResponses :
          /\ r.status # RateLimited
          /\ RaiseForStatus(r.status)
          /\ responses' = Append(responses, r)
          /\ Raises("gen")
    /\ UNCHANGED << persisted, config, seen_hashes, new_hashes,
                    select_vars, k, waits, posted, published, save_vars, load_calls, delays, units >>

(* Lines 148, 158-159: an attempt answered with a completion.              *)
GenContent(rs) == Strip(rs[Len(rs)].content)

GenReturnsMarking ==
    /\ pc = "generate"
    /\ Len(responses) < MaxAttempts
    /\ \E r \in GenResponses :
          /\ r.status # RateLimited
          /\ ~RaiseForStatus(r.status)
          /\ responses' = Append(responses, r)
          /\ Returns(GenContent(responses'))
    /\ new_hashes' = Append(new_hashes, picked[k].hash)
    /\ UNCHANGED << persisted, config, seen_hashes, select_vars, k, waits,
                    posted, published, save_vars, load_calls, delays, units >>

GenReturns ==
    /\ pc = "generate"
    /\ Len(responses) < MaxAttempts
    /\ \E r \in GenResponses :
          /\ r.status # RateLimited
          /\ ~RaiseForStatus(r.status)
          /\ responses' = Append(responses, r)
          /\ Returns(GenContent(responses'))
    /\ UNCHANGED << persisted, config, seen_hashes, new_hashes,
                    select_vars, k, waits, posted, published, save_vars, load_calls, delays, units >>

(* Lines 225-228: X accepts the post; the hash is noted, and the loop goes *)
(* on to the next candidate, or ends.                                      *)
MarkedFront(nh, h) == << h >> \o nh

Marked(nh, h) == Append(nh, h)

(* No later line reads the draft, the tweet or the responses of an         *)
(* iteration that has ended: they are dropped with it.                     *)
NextCandidate ==
    /\ pc' = IF k < Len(picked) THEN "generate" ELSE "save"
    /\ responses' = << >>
    /\ waits' = << >>
    /\ draft' = << >>
    /\ tweet' = << >>

PostOk ==
    /\ pc = "post"
    /\ \E s \in PostStatuses : PostAccepted(s)
    /\ posted' = Append(posted, picked[k].hash)
    /\ published' = Append(published, picked[k].hash)
    /\ new_hashes' = Marked(new_hashes, picked[k].hash)
    /\ delays' = delays + 1
    /\ k' = k + 1
    /\ NextCandidate
    /\ UNCHANGED << persisted, config, err, seen_hashes, select_vars,
                    save_vars, load_calls, units >>

(* Lines 174-175: X answers with another status; post_to_x raises.         *)
PostFailsIgnored ==
    /\ pc = "post"
    /\ \E s \in PostStatuses : ~PostAccepted(s)
    /\ new_hashes' = Marked(new_hashes, picked[k].hash)
    /\ delays' = delays + 1
    /\ k' = k + 1
    /\ NextCandidate
    /\ UNCHANGED << persisted, config, err, seen_hashes, select_vars,
                    posted, published, save_vars, load_calls, units >>

PostFails ==
    /\ pc = "post"
    /\ \E s \in PostStatuses : ~PostAccepted(s)
    /\ pc' = "failed"
    /\ err' = "post"
    /\ UNCHANGED << persisted, config, seen_hashes, new_hashes,
                    select_vars, k, gen_vars, posted, published, save_vars,
                    load_calls, delays, units >>

(* Lines 231-232: the hashes noted in this run are appended to the record. *)
SaveSeenSkipped ==
    /\ pc = "save"
    /\ pc' = "done"
    /\ UNCHANGED << persisted, save_vars, config, err, seen_hashes,
                    new_hashes, select_vars, k, gen_vars, posted, published,
                    load_calls, delays, units >>

SaveSeen ==
    /\ pc = "save"
    /\ IF new_hashes # << >>
       THEN /\ file' = save_seen(file, new_hashes)
            /\ file_exists' = TRUE
            /\ save_calls' = save_calls + 1
            /\ save_arg' = new_hashes
       ELSE UNCHANGED << persisted, save_vars >>
    /\ pc' = "done"
    /\ UNCHANGED << config, err, seen_hashes, new_hashes, select_vars,
                    k, gen_vars, posted, published, load_calls,
                    delays, units >>

(* Lines 59-61 raise: open() fails, or the file is opened (and created when *)
(* missing) and the buffered lines, written out when the file is closed,  *)
(* do not reach it.                                                        *)
SaveSeenFails ==
    /\ pc = "save"
    /\ new_hashes # << >>
    /\ \/ UNCHANGED persisted
       \/ /\ file' = file
          /\ file_exists' = TRUE
    /\ save_calls' = save_calls + 1
    /\ save_arg' = new_hashes
    /\ pc' = "failed"
    /\ err' = "save"
    /\ UNCHANGED << config, seen_hashes, new_hashes, select_vars, k,
                    gen_vars, posted, published, load_calls,
                    delays, units >>

(* The scheduler starts the next run once this one has ended: a process    *)
(* that has not yet run a line of main().                                  *)
StartRun ==
    /\ pc \in { "done", "failed" }
    /\ pc' = "start"
    /\ err' = "none"
    /\ seen_hashes' = {}
    /\ new_hashes' = << >>
    /\ picked' = << >>
    /\ items' = << >>
    /\ idx' = 0
    /\ resolved' = << >>
    /\ k' = 0
    /\ responses' = << >>
    /\ waits' = << >>
    /\ draft' = << >>
    /\ tweet' = << >>
    /\ published' = << >>
    /\ save_calls' = 0
    /\ save_arg' = << >>
    /\ load_calls' = 0
    /\ delays' = 0
    /\ UNCHANGED << persisted, config, posted, units >>

NextRun ==
    /\ Len(posted) < MaxPosts
    /\ StartRun

Next ==
    \/ LoadSeen
    \/ LoadSeenFails
    \/ Collect
    \/ SelectStep
    \/ SelectExhausted
    \/ GenRateLimited
    \/ GenFails
    \/ GenReturns
    \/ PostOk
    \/ PostFails
    \/ SaveSeen
    \/ SaveSeenFails
    \/ NextRun

Spec == Init /\ [][Next]_vars

----------------------------------------------------------------------------
(* Runs in which nothing fails: every call of call_openai returns a text,  *)
(* X accepts every post and the record is written; the feeds give the same *)
(* candidates in every run: final_url returns the same URL for a link each *)
(* time, the link itself for the links in down.                            *)

CanonicalUrl(link) == IF link \in down THEN link ELSE Redirect(link)

InitFair ==
    /\ file = << >>
    /\ file_exists = FALSE
    /\ feed \in FeedLists
    /\ budget \in { b \in Budgets : b >= 1 }
    /\ posted = << >>
    /\ down \in SUBSET Links
    /\ rt = RtIdle
    /\ ct = CtIdle
    /\ FreshRun

SelectStepFixed ==
    /\ pc = "select"
    /\ idx < Len(items)
    /\ SelectWith(CanonicalUrl(items[idx + 1]))
    /\ UNCHANGED << persisted, config, err, seen_hashes, new_hashes,
                    items, draft, tweet, posted, published, save_vars,
                    load_calls, delays, units >>

(* A 429 on an attempt that is not the last: the call goes on.             *)
GenRateLimitedRetried ==
    /\ Len(responses) + 1 < MaxAttempts
    /\ GenRateLimited

(* No item is posted twice in these runs, so the guard never holds a run   *)
(* back.                                                                   *)
NextRunFair ==
    /\ Len(posted) <= MaxItems
    /\ StartRun

NextFair ==
    \/ LoadSeen
    \/ Collect
    \/ SelectStepFixed
    \/ SelectExhausted
    \/ GenRateLimitedRetried
    \/ GenReturns
    \/ PostOk
    \/ SaveSeen
    \/ NextRunFair

(* A run that can take a step takes one, and the scheduler goes on         *)
(* starting runs.                                                          *)
SpecFair == InitFair /\ [][NextFair]_vars /\ WF_vars(NextFair)

----------------------------------------------------------------------------
(* The store alone: load_seen(), save_seen(F), load_seen(), from any       *)
(* record the program can have written and for any sequence F.             *)

FewFingerprints == { sha("a1"), sha("a2") }

SeqsUpTo(S, n) == UNION { [1..m -> S] : m \in 0..n }

(* The records save_seen leaves: none, or lines of one fingerprint each.   *)
Records == { WriteLines(hs) : hs \in SeqsUpTo(FewFingerprints, MaxFileLines) }

Appended == SeqsUpTo(FewFingerprints, 2)

InitStore ==
    /\ file \in Records
    /\ file_exists \in BOOLEAN
    /\ file_exists \/ file = << >>
    /\ feed = << >>
    /\ budget = 1
    /\ posted = << >>
    /\ down = {}
    /\ rt = RtIdle
    /\ ct = CtIdle
    /\ FreshRun

RtLoad ==
    /\ rt.pc \in { "idle", "reloaded" }
    /\ rt' = [ pc |-> "loaded", before |-> load_seen(file_exists, file),
               arg |-> << >>, after |-> {} ]
    /\ UNCHANGED << persisted, config, pc, err, seen_hashes, new_hashes,
                    select_vars, k, gen_vars, posted, published, save_vars,
                    load_calls, delays, ct >>

RtAppend ==
    /\ rt.pc = "loaded"
    /\ Len(ReadLines(file, << >>)) <= MaxFileLines
    /\ \E F \in Appended :
          /\ file' = save_seen(file, F)
          /\ file_exists' = TRUE
          /\ rt' = [ rt EXCEPT !.pc = "appended", !.arg = F ]
    /\ UNCHANGED << config, pc, err, seen_hashes, new_hashes, select_vars, k, gen_vars, posted, published, save_vars,
                    load_calls, delays, ct >>

RtReload ==
    /\ rt.pc = "appended"
    /\ rt' = [ rt EXCEPT !.pc = "reloaded",
                         !.after = load_seen(file_exists, file) ]
    /\ UNCHANGED << persisted, config, pc, err, seen_hashes, new_hashes,
                    select_vars, k, gen_vars, posted, published, save_vars,
                    load_calls, delays, ct >>

NextStore ==
    \/ RtLoad
    \/ RtAppend
    \/ RtReload

SpecStore == InitStore /\ [][NextStore]_vars

----------------------------------------------------------------------------
(* clip_len alone, and lines 221-223 of main on the same text: for short   *)
(* texts every length from -1 on, for texts around the tweet limit the     *)
(* limit.                                                                  *)

ShortTexts == UNION { [1..n -> { "a", "b" }] : n \in 0..MaxTextLen }

LimitTexts == { Rep("x", n) : n \in (TweetLimit - 1)..(TweetLimit + 1) }

ClipInputs ==
    [ txt : ShortTexts, maxlen : (0 - 1)..(MaxTextLen + 1) ]
        \cup [ txt : ShortTexts \cup LimitTexts, maxlen : { TweetLimit } ]

InitClip ==
    /\ file = << >>
    /\ file_exists = FALSE
    /\ feed = << >>
    /\ budget = 1
    /\ posted = << >>
    /\ down = {}
    /\ rt = RtIdle
    /\ \E in \in ClipInputs :
          ct = [ pc |-> "called", txt |-> in.txt, maxlen |-> in.maxlen,
                 out |-> << >>, tweet |-> << >> ]
    /\ FreshRun

ClipReturns ==
    /\ ct.pc = "called"
    /\ ct' = [ ct EXCEPT !.pc = "returned",
                         !.out = clip_len(ct.txt, ct.maxlen),
                         !.tweet = Truncated(ct.txt) ]
    /\ UNCHANGED << persisted, config, pc, err, seen_hashes, new_hashes,
                    select_vars, k, gen_vars, posted, published, save_vars,
                    load_calls, delays, rt >>

ClipCalled ==
    /\ ct.pc = "returned"
    /\ \E in \in ClipInputs :
          ct' = [ pc |-> "called", txt |-> in.txt, maxlen |-> in.maxlen,
                  out |-> << >>, tweet |-> << >> ]
    /\ UNCHANGED << persisted, config, pc, err, seen_hashes, new_hashes,
                    select_vars, k, gen_vars, posted, published, save_vars,
                    load_calls, delays, rt >>

NextClip ==
    \/ ClipReturns
    \/ ClipCalled

SpecClip == InitClip /\ [][NextClip]_vars

----------------------------------------------------------------------------
(* Properties.                                                             *)

Hashes(p) == [ i \in 1..Len(p) |-> p[i].hash ]

Positions(p) == { p[i].pos : i \in 1..Len(p) }

SelectionEnded == pc \notin { "start", "collect", "select" }

(* The feed gives each article once: no two of its entries can resolve to *)
(* the same URL.                                                           *)
DistinctArticles ==
    \A i, j \in 1..Len(feed) :
        i # j => final_url(feed[i]) \cap final_url(feed[j]) = {}

(* C1: over any sequence of runs, with any generation call, publish call   *)
(* or append failing, X accepts a post for no fingerprint more than once   *)
(* (stated for the feeds that give each article once).                     *)
C1_NoFingerprintPostedTwice ==
    DistinctArticles =>
        \A i, j \in 1..Len(posted) : posted[i] = posted[j] => i = j

(* C2: when a run with a budget of two or more aborts at the generation or *)
(* the publish of a later candidate, the fingerprints published earlier in *)
(* that run are in the persisted seen-set when the run ends (stated for    *)
(* the feeds that give each article once).                                 *)
C2_AbortKeepsPublishedMarked ==
    ( /\ DistinctArticles
      /\ pc = "failed"
      /\ err \in { "gen", "post" }
      /\ budget >= 2
      /\ k >= 2 )
        => Range(published) \subseteq load_seen(file_exists, file)

(* C3: the fingerprint of a candidate whose publish call is refused is not *)
(* added to the newly-seen list and not passed to save_seen in that run; a *)
(* fingerprint is in the list only once X has accepted its post.           *)
C3_FailedPublishNeverMarked ==
    /\ new_hashes = published
    /\ err = "post" =>
          /\ Len(new_hashes) = k - 1
          /\ new_hashes = Hashes(SubSeq(picked, 1, k - 1))
          /\ save_calls = 0

C3_Witness ==
    /\ err = "post"
    /\ k = 2
    /\ Len(new_hashes) = 1
    /\ picked[2].hash # picked[1].hash

(* C4: for every budget, zero included, selection returns at most budget   *)
(* candidates, each with a fingerprint absent from the loaded seen-set.    *)
C4_SelectionWithinBudget ==
    /\ Len(picked) <= budget
    /\ \A i \in 1..Len(picked) : picked[i].hash \notin seen_hashes

(* C5: selection is order-preserving and deterministic: what it returns is *)
(* a subsequence of the candidates in input order, leaves out no unseen    *)
(* candidate before a selected one, and is the one result its inputs       *)
(* determine: the first unseen candidates, as many as the loop takes; for  *)
(* seen = {h(A)}, candidates [A, B, C] and budget 1 it is [B].             *)
C5_SelectionOrderedDeterministic ==
    LET unseen == { i \in 1..Len(resolved) :
                        sha(resolved[i]) \notin seen_hashes }
        taken == IF budget < 1 THEN 1 ELSE budget
        first == { i \in unseen :
                        Cardinality({ j \in unseen : j < i }) < taken }
    IN  /\ \A i \in 1..Len(picked) :
              /\ picked[i].pos \in 1..Len(items)
              /\ picked[i].link = items[picked[i].pos]
              /\ picked[i].final = resolved[picked[i].pos]
              /\ picked[i].hash = sha(picked[i].final)
        /\ \A i, j \in 1..Len(picked) :
              i < j => picked[i].pos < picked[j].pos
        /\ \A i \in unseen :
              (picked # << >> /\ i < picked[Len(picked)].pos)
                  => i \in Positions(picked)
        /\ Positions(picked) = first
        /\ SelectionEnded =>
              (Len(picked) = taken \/ Len(resolved) = Len(items))
        /\ ( /\ SelectionEnded
             /\ budget = 1
             /\ Len(items) = 3
             /\ Len(resolved) >= 2
             /\ seen_hashes = { sha(resolved[1]) }
             /\ sha(resolved[2]) \notin seen_hashes )
               => /\ Len(picked) = 1
                  /\ picked[1].pos = 2
                  /\ Len(resolved) = 2

C5_Witness ==
    /\ SelectionEnded
    /\ budget = 1
    /\ Len(items) = 3
    /\ Cardinality(Range(items)) = 3
    /\ Len(resolved) = 2
    /\ seen_hashes = { sha(resolved[1]) }
    /\ Hashes(picked) = << sha(resolved[2]) >>

(* C6: in a run save_seen is called at most once, only after the publish   *)
(* loop has ended, with exactly the fingerprints X accepted a post for in  *)
(* this run, in order, and never with an empty sequence.                   *)
C6_SaveOnceWithPublished ==
    /\ save_calls <= 1
    /\ save_calls = 1 =>
          /\ pc \in { "done", "failed" }
          /\ k = Len(picked) + 1
          /\ save_arg = published
          /\ save_arg # << >>
    /\ published = << >> => save_calls = 0

C6_Witness ==
    /\ save_calls = 1
    /\ pc = "done"
    /\ Len(save_arg) = 2
    /\ save_arg[1] # save_arg[2]

(* C7: the record is append-only: a step leaves what was in the record as  *)
(* the beginning of what is in it, in the same order, and every            *)
(* fingerprint it held is still held.                                      *)
C7_RecordAppendOnly ==
    [][ /\ IsPrefix(file, file')
        /\ file_exists => file_exists'
        /\ load_seen(file_exists, file) \subseteq load_seen(file_exists', file')
      ]_vars

C7_Witness ==
    /\ pc = "done"
    /\ save_calls = 1
    /\ seen_hashes # {}
    /\ Len(ReadLines(file, << >>)) >= 2

(* C8: load_seen() after save_seen(F) is load_seen() before it united with *)
(* the elements of F, whatever the record, a missing one (which loads as   *)
(* the empty set) included; lines that repeat a fingerprint give one       *)
(* member.                                                                 *)
C8_StoreRoundTrip ==
    /\ ~file_exists => load_seen(file_exists, file) = {}
    /\ rt.pc = "reloaded" => rt.after = rt.before \cup Range(rt.arg)
    /\ rt.pc = "reloaded" =>
          Cardinality(rt.after) <= Cardinality(rt.before) + Len(rt.arg)

C8_Witness ==
    /\ rt.pc = "reloaded"
    /\ Len(rt.arg) = 2
    /\ rt.arg[1] = rt.arg[2]
    /\ rt.arg[1] \in rt.before
    /\ Cardinality(rt.after) = 2
    /\ Len(ReadLines(file, << >>)) = 4

(* C9, as claimed: when attempts 1 and 2 are rate-limited and attempt 3    *)
(* succeeds, the text returned, and then handed to post_to_x, is attempt   *)
(* 3's content, after exactly two waits.                                   *)
C9_PublishedIsThirdContent ==
    ( /\ pc = "post"
      /\ budget >= 1
      /\ Len(responses) = 3 )
        => /\ draft = responses[3].content
           /\ tweet = responses[3].content
           /\ Len(waits) = 2

(* C9, amended: call_openai makes at most 3 attempts, another one only     *)
(* after a 429, and waits 5*k seconds after the k-th rate-limited attempt; *)
(* when attempts 1 and 2 are rate-limited and attempt 3 succeeds, the text *)
(* returned is attempt 3's content with the whitespace at its ends         *)
(* stripped, the text handed to post_to_x is that text cut to 280          *)
(* characters when longer, and exactly two waits, of 5 and 10 seconds,     *)
(* have occurred.                                                          *)
C9_RetryBackoffThirdContent ==
    /\ Len(responses) <= 3
    /\ \A i \in 1..(Len(responses) - 1) : responses[i].status = 429
    /\ Len(waits) = Cardinality({ i \in 1..Len(responses) :
                                      responses[i].status = 429 })
    /\ \A i \in 1..Len(waits) : waits[i] = 5 * i
    /\ pc = "post" =>
          /\ responses[Len(responses)].status = 200
          /\ draft = Strip(responses[Len(responses)].content)
          /\ tweet = IF Len(draft) <= 280 THEN draft
                     ELSE SubSeq(draft, 1, 279) \o << Marker >>
    /\ (pc = "post" /\ Len(responses) = 3) => waits = << 5, 10 >>

C9_Witness ==
    /\ pc = "post"
    /\ Len(responses) = 3
    /\ responses[3].content = Padded
    /\ tweet = Short
    /\ waits = << 5, 10 >>

(* C10: when all 3 attempts for a candidate are rate-limited the run ends  *)
(* in an error: no 4th attempt is made, no empty text is returned and      *)
(* handed to post_to_x, and the candidate's fingerprint is not marked seen *)
(* unless X accepted a post for it.                                        *)
C10_ExhaustedRetriesAbort ==
    LET exhausted == /\ Len(responses) = 3
                     /\ \A i \in 1..3 : responses[i].status = 429
    IN  /\ Len(responses) <= 3
        /\ exhausted =>
              /\ pc = "failed"
              /\ err = "gen"
              /\ Len(published) = k - 1
              /\ Len(new_hashes) = k - 1
              /\ picked[k].hash \in Range(new_hashes)
                    => picked[k].hash \in Range(published)
              /\ save_calls = 0

C10_Witness ==
    /\ Len(responses) = 3
    /\ \A i \in 1..3 : responses[i].status = 429
    /\ pc = "failed"
    /\ k = 2

(* C11: an attempt answered with an error status other than 429 is the     *)
(* last attempt of its call and of the run: the run has ended in the       *)
(* error, X was asked for no post for this candidate or a later one, and   *)
(* the record was not written.                                             *)
C11_OtherFailureNotRetried ==
    \A i \in 1..Len(responses) :
        (responses[i].status # 429 /\ responses[i].status >= 400) =>
            /\ i = Len(responses)
            /\ pc = "failed"
            /\ err = "gen"
            /\ Len(published) = k - 1
            /\ Len(new_hashes) = k - 1
            /\ delays = k - 1
            /\ save_calls = 0

C11_Witness ==
    /\ pc = "failed"
    /\ err = "gen"
    /\ Len(responses) = 2
    /\ responses[1].status = 429
    /\ responses[2].status = 500
    /\ k = 1
    /\ Len(picked) = 2
    /\ published = << >>

(* What C12 says of a result of clip_len.                                  *)
ClippedTo(txt, maxlen, out) ==
    IF Len(txt) <= maxlen
    THEN out = txt
    ELSE /\ Len(out) = maxlen
         /\ \A i \in 1..(maxlen - 1) : out[i] = txt[i]
         /\ out[maxlen] = Marker

(* C12, as claimed: for every text and every length, clip_len returns the  *)
(* text as it is when it is no longer than the length, and otherwise a     *)
(* text of exactly that length: the input's first characters, then the     *)
(* marker; so a text handed to post_to_x has at most 280 characters.       *)
C12_ClipAnyLength ==
    ct.pc = "returned" =>
        /\ ClippedTo(ct.txt, ct.maxlen, ct.out)
        /\ Len(ct.tweet) <= 280

(* C12, amended: the same for every text and every length of 1 or more.    *)
C12_ClipPositiveLength ==
    (ct.pc = "returned" /\ ct.maxlen >= 1) =>
        /\ ClippedTo(ct.txt, ct.maxlen, ct.out)
        /\ Len(ct.tweet) <= 280
        /\ ct.maxlen = 280 => ct.tweet = ct.out

C12_Witness ==
    /\ ct.pc = "returned"
    /\ ct.txt = << "a", "b", "a" >>
    /\ ct.maxlen = 2
    /\ ct.out = << "a", Marker >>

(* Every candidate of the feeds has been published and is in the record.   *)
EveryCandidateRecorded ==
    \A i \in 1..Len(feed) :
        /\ sha(CanonicalUrl(feed[i])) \in Range(posted)
        /\ sha(CanonicalUrl(feed[i])) \in load_seen(file_exists, file)

(* C13: with the same candidates in every run, a budget of 1 or more and   *)
(* no call failing, the runs come to a point from which every candidate    *)
(* has been published and recorded, the ones a run left out for its budget *)
(* included; a run that loaded all of them selects nothing, and such runs  *)
(* go on ending with nothing selected.                                     *)
C13_EveryCandidateEventuallyPublished ==
    /\ <>[]EveryCandidateRecorded
    /\ []((\A i \in 1..Len(feed) :
                sha(CanonicalUrl(feed[i])) \in seen_hashes)
             => picked = << >>)
    /\ []<>(pc = "done" /\ picked = << >> /\ idx = Len(feed))

C13_Witness ==
    /\ pc = "done"
    /\ budget = 1
    /\ Len(feed) = 3
    /\ Cardinality(Range(posted)) = 3
    /\ Len(posted) = 3
    /\ down # {}
    /\ picked = << >>
    /\ load_calls = 1
    /\ idx = 3

(* What a run has done when it has fetched no feed, resolved no link,      *)
(* asked for no text and no post, and not written the record.              *)
NothingButLoad ==
    /\ items = << >>
    /\ resolved = << >>
    /\ k = 0
    /\ responses = << >>
    /\ draft = << >>
    /\ published = << >>
    /\ new_hashes = << >>
    /\ delays = 0
    /\ save_calls = 0

(* C14: a run calls load_seen once, as its first step: before the call it  *)
(* has fetched no feed and asked for no text and no post, and after it     *)
(* there is no second call; when the call raises, the run has ended in     *)
(* that error having done nothing else.                                    *)
C14_LoadOnceFirst ==
    /\ load_calls <= 1
    /\ load_calls = 0 <=> pc = "start"
    /\ load_calls = 0 => NothingButLoad
    /\ err = "load" =>
          /\ pc = "failed"
          /\ load_calls = 1
          /\ NothingButLoad

C14_Witness ==
    /\ pc = "failed"
    /\ err = "load"
    /\ load_calls = 1
    /\ Len(posted) = 2
    /\ load_seen(file_exists, file) # {}

(* C15: the publish loop takes the selected candidates one at a time, in   *)
(* the order of selection: while a candidate is at its generation or its   *)
(* publish call, every candidate before it, and no other, has had its post *)
(* accepted, its fingerprint noted and its delay slept, in that order of   *)
(* candidates; the text handed to post_to_x is the generated one, cut; and *)
(* a fingerprint is noted and a delay slept only for an accepted post.     *)
C15_PublishLoopSequential ==
    LET before == Hashes(SubSeq(picked, 1, k - 1))
    IN  /\ k <= Len(picked) + 1
        /\ k >= 1 =>
              /\ published = before
              /\ new_hashes = before
              /\ delays = k - 1
        /\ k = 0 => (published = << >> /\ new_hashes = << >> /\ delays = 0)
        /\ responses # << >> => (k \in 1..Len(picked) /\ SelectionEnded)
        /\ pc \in { "generate", "post" } => k \in 1..Len(picked)
        /\ pc = "generate" => (draft = << >> /\ tweet = << >>)
        /\ pc = "post" =>
              /\ responses # << >>
              /\ responses[Len(responses)].status = 200
              /\ draft = GenContent(responses)
              /\ tweet = Truncated(draft)
        /\ pc = "save" => k = Len(picked) + 1

C15_Witness ==
    /\ pc = "post"
    /\ k = 2
    /\ Len(picked) = 2
    /\ picked[1].hash # picked[2].hash
    /\ published = << picked[1].hash >>
    /\ new_hashes = << picked[1].hash >>
    /\ delays = 1
    /\ tweet # draft

(* The unseen candidates among the first n the selection loop resolved.    *)
UnseenAmong(n) == { j \in 1..n : sha(resolved[j]) \notin seen_hashes }

(* C16: a candidate is resolved, fingerprinted and tested against the      *)
(* seen-set only while fewer than budget unseen candidates have been       *)
(* accumulated before it.                                                  *)
C16_SelectionShortCircuits ==
    \A i \in 1..Len(resolved) : Cardinality(UnseenAmong(i - 1)) < budget

(* C17: a run whose selection ends with no candidate, because the feeds    *)
(* gave none or every fingerprint was in the loaded seen-set, has ended    *)
(* without an error, has asked for no text and no post, has not called     *)
(* save_seen, and the record holds what it held when the run loaded it.    *)
C17_NothingEligibleNothingDone ==
    ( /\ SelectionEnded
      /\ err # "load"
      /\ picked = << >> )
        => /\ pc = "done"
           /\ err = "none"
           /\ Len(resolved) = Len(items)
           /\ \A i \in 1..Len(resolved) : sha(resolved[i]) \in seen_hashes
           /\ k = 0
           /\ responses = << >>
           /\ draft = << >>
           /\ published = << >>
           /\ new_hashes = << >>
           /\ delays = 0
           /\ save_calls = 0
           /\ load_seen(file_exists, file) = seen_hashes

C17_Witness ==
    /\ pc = "done"
    /\ picked = << >>
    /\ Len(items) = 3
    /\ Len(resolved) = 3
    /\ Cardinality(seen_hashes) = 2
    /\ save_calls = 0

(* C18: the candidates selected in a run have fingerprints that differ     *)
(* from one another, and so have the posts X accepts in the run.           *)
C18_SelectedFingerprintsDistinct ==
    /\ \A i, j \in 1..Len(picked) :
          picked[i].hash = picked[j].hash => i = j
    /\ \A i, j \in 1..Len(published) :
          published[i] = published[j] => i = j

(* C19: a selected item has no fingerprint in the loaded seen-set, neither *)
(* that of its resolved URL nor that of its link (stated for the feeds     *)
(* that give each article once, where a recorded fingerprint of an item    *)
(* comes from an earlier post of that item).                               *)
C19_RecordedNeverSelectedAgain ==
    DistinctArticles =>
        \A i \in 1..Len(picked) :
            \A u \in final_url(picked[i].link) : sha(u) \notin seen_hashes

====
